---- MODULE Spec2Model ----
(***************************************************************************)
(* The store engine of createStore (src/src/applyMiddleware.js, lines      *)
(* 85-366): the state tree, the reducer call guarded by isDispatching, the *)
(* two listener arrays with their copy-on-write, and the notification      *)
(* loop.  JavaScript is single threaded, so the only interleaving is       *)
(* re-entrancy: user code (a reducer or a listener) that is on the call    *)
(* stack calls back into the store.  The call stack is explicit.           *)
(***************************************************************************)
EXTENDS Integers, Sequences, FiniteSets, TLC

\* ---------------------------------------------------------------- bounds
MaxSubs == 2      \* handles subscribe issues in the runs of the whole store
MaxHandles == 3   \* handles subscribe issues in any run
MaxRounds == 2    \* dispatches that enter the reducer, after the INIT one
MaxCalls == 5     \* subscribe, unsubscribe and dispatch calls that get past their checks, in any run
MaxObservers == 1     \* calls of the observable's subscribe that get past its checks
MaxCallsRegistry == 4 \* calls that get past their checks in the runs about the registry
MaxCallsStore == 4    \* calls that get past their checks in the runs of the whole store
MaxSubsReplace == 1   \* handles in the runs that replace the reducer
MaxCallsReplace == 3  \* calls that get past their checks in those runs
MaxFuncs == 3     \* functions handed to compose
MaxArgs == 2      \* arguments the composed function is called with
MaxMiddlewares == 2   \* middlewares handed to applyMiddleware
MaxSubsMiddleware == 1    \* handles in the runs with middlewares
MaxCallsMiddleware == 2   \* calls that get past their checks in those runs
MaxDepth == 3     \* middleware calls on the call stack at a time

\* ---------------------------------------------------------------- inputs
Undefined == -1   \* the JavaScript value undefined, as a state value

Listeners == {"L1", "L2"}          \* listener functions, by identity
NotAFunction == "notAFunction"     \* a listener argument that is no function

\* Observers handed to the subscribe of observable(): O1 has a next method,
\* O2 is an object without one; a number and null are no observers.
Observers == {"O1", "O2"}
ObserverArgs == Observers \cup {"aNumber", "null"}
typeofObserver(observer) ==
    IF observer = "aNumber" THEN "number" ELSE "object"   \* typeof null is "object"
hasNext(observer) == observer = "O1"

\* function observeState (line 337), one closure per call of the observable's
\* subscribe; a closure is named by the handle its subscription gets, or
\* would get when subscribe rejects the call: one more than the handles
\* issued
ObserveState(h) == "observeState" \o ToString(h)
ObserveStates == {ObserveState(h) : h \in 1..(MaxHandles + 1)}

\* typeof x === 'function'
isFunction(x) == x \in Listeners \/ x \in ObserveStates

INIT == "@@redux/INIT"
REPLACE == "@@redux/REPLACE"

Reducers == {"R1", "R2"}           \* reducer functions, by identity

\* An action argument: what typeof says of it, the length of its prototype
\* chain (the number of getPrototypeOf steps that reach null), and its type
\* property ("undefined" when absent).
PlainAction(t) == [typeof |-> "object", protos |-> 1, type |-> t]
ValidActions == {PlainAction("INC"), PlainAction("DBL")}
InvalidActions == { [typeof |-> "function", protos |-> 2, type |-> "undefined"],
                    [typeof |-> "object", protos |-> 2, type |-> "INC"],
                    PlainAction("undefined") }
ActionArgs == ValidActions \cup InvalidActions

PreloadedStates == {Undefined}     \* createStore(reducer): no preloaded state

VARIABLES
    currentReducer,     \* let currentReducer (line 114)
    currentState,       \* let currentState (line 115)
    heap,               \* the listener arrays that exist, by reference
    currentListeners,   \* let currentListeners (line 116): a reference
    nextListeners,      \* let nextListeners (line 117): a reference
    isDispatching,      \* let isDispatching (line 118)
    subs,               \* the closures subscribe returned: listener, isSubscribed,
                        \* and the observer when the listener is an observeState
    stack,              \* the call stack: dispatch frames and listener frames; a
                        \* dispatch frame also keeps, as history, the pending
                        \* array and the live handles at its commit, and the
                        \* listeners it has called
    rounds,             \* history: one record per dispatch that entered the reducer
    ret,                \* history: the outcome of the call into the store that
                        \* has just returned or thrown
    observerErrors,     \* history: how many calls of the observable's subscribe
                        \* ended by the error of observer.next (line 339)
    funcs,              \* compose(...funcs) (compose.js line 12): the functions
    args,               \* the arguments the composed function is called with
    out,                \* the function compose returned and, once it was called,
                        \* its value and the calls it made
    middlewares,        \* applyMiddleware(...middlewares) (line 19), by name
    chain,              \* const chain (line 42), as far as it is built
    dispatchRef,        \* let dispatch of applyMiddleware (lines 22, 43)
    phase,              \* where the enhancer is: "map" (line 42 is running or
                        \* line 43 not yet done), "ready" (the store is returned),
                        \* "threw", or "none" when no enhancer is used
    mwStack,            \* the call stack of the middlewares' action => ... functions
    wrapped             \* how many next => ... functions line 43 has called and
                        \* got an action => ... function from

storeVars == <<currentReducer, currentState, heap, currentListeners, nextListeners,
               isDispatching, subs, stack, rounds, ret, observerErrors>>
composeVars == <<funcs, args, out>>
enhancerVars == <<middlewares, chain, dispatchRef, phase, mwStack, wrapped>>

vars == <<storeVars, composeVars, enhancerVars>>

\* ------------------------------------------------------- pure functions

\* The reducer the store is built with (spec scenario, one more action to
\* make the order of actions matter): (s = 0, a) => INC ? s+1 : DBL ? 2s : s
reducer(s, type) ==
    LET st == IF s = Undefined THEN 0 ELSE s
    IN  CASE type = "INC" -> st + 1
          [] type = "DBL" -> 2 * st
          [] OTHER -> st

\* A second reducer, to replace the first: it counts in other steps, and it
\* answers an action it does not know, the REPLACE action among them, by
\* adding its own slice to the state.
reducer2(s, type) ==
    LET st == IF s = Undefined THEN 0 ELSE s
    IN  CASE type = "INC" -> st + 3
          [] type = "DBL" -> 3 * st
          [] OTHER -> st + 10

\* the call fn(state, action) of a reducer function
applyReducer(fn, s, type) ==
    IF fn = "R1" THEN reducer(s, type) ELSE reducer2(s, type)

RECURSIVE protoTop(_)
\* isPlainObject's loop (lines 375-378): climb until getPrototypeOf is null;
\* an object is named by the number of prototypes above it.
protoTop(above) == IF above = 0 THEN 0 ELSE protoTop(above - 1)

isPlainObject(obj) ==
    IF obj.typeof # "object" THEN FALSE
    ELSE (obj.protos - 1) = protoTop(obj.protos)

\* indexOf read as if it counted from 1
indexOfOneBased(arr, x) ==
    IF \E k \in 1..Len(arr) : arr[k] = x
    THEN CHOOSE k \in 1..Len(arr) : arr[k] = x /\ \A j \in 1..(k-1) : arr[j] # x
    ELSE -1

\* Array.prototype.indexOf: the first 0-based index of x, or -1
indexOf(arr, x) ==
    IF \E k \in 1..Len(arr) : arr[k] = x
    THEN (CHOOSE k \in 1..Len(arr) : arr[k] = x /\ \A j \in 1..(k-1) : arr[j] # x) - 1
    ELSE -1

\* Array.prototype.splice(start, 1): a negative start counts from the end
splice1(arr, start) ==
    LET s0 == IF start < 0 THEN (IF Len(arr) + start < 0 THEN 0 ELSE Len(arr) + start)
              ELSE (IF start > Len(arr) THEN Len(arr) ELSE start)
    IN  [k \in 1..(IF s0 < Len(arr) THEN Len(arr) - 1 ELSE Len(arr)) |->
            IF k <= s0 THEN arr[k] ELSE arr[k + 1]]

\* ensureCanMutateNextListeners without its copy
ensureWithoutCopy(h, cur, nxt) == [heap |-> h, next |-> nxt]

\* ensureCanMutateNextListeners copying on every call
ensureAlwaysCopy(h, cur, nxt) == [heap |-> Append(h, h[nxt]), next |-> Len(h) + 1]

\* ensureCanMutateNextListeners (lines 129-133): the heap and nextListeners
\* after the call; slice() allocates a new array.
ensureCanMutateNextListeners(h, cur, nxt) ==
    IF nxt = cur
    THEN [heap |-> Append(h, h[cur]), next |-> Len(h) + 1]
    ELSE [heap |-> h, next |-> nxt]

\* The arrays some variable still refers to: currentListeners, nextListeners
\* and the local listeners of every dispatch that is in its loop (line 279).
liveArrays(cur, nxt, stk) ==
    {cur, nxt} \cup {stk[k].listeners : k \in {j \in 1..Len(stk) : stk[j].listeners # 0}}

\* The JavaScript runtime frees an array nothing refers to.  References are
\* renumbered in order, so that a reference is the rank of its array among
\* the arrays alive.
collect(h, cur, nxt, stk) ==
    LET live == liveArrays(cur, nxt, stk)
        rank(r) == Cardinality({x \in live : x <= r})
        at(k) == CHOOSE r \in live : rank(r) = k
    IN  [heap |-> [k \in 1..Cardinality(live) |-> h[at(k)]],
         cur |-> rank(cur),
         next |-> rank(nxt),
         stack |-> [k \in 1..Len(stk) |->
                       IF stk[k].listeners = 0 THEN stk[k]
                       ELSE [stk[k] EXCEPT !.listeners = rank(@)]]]

\* ------------------------------------------------------------ call stack
Top == stack[Len(stack)]
Pop == SubSeq(stack, 1, Len(stack) - 1)

\* Who is running: user code at top level, a listener, the reducer, or the
\* next method of an observer that the observable's subscribe calls at once.
\* A dispatch frame in its notification loop is the store's own code.
CtxOf(stk) ==
    IF stk = <<>> THEN "top"
    ELSE IF stk[Len(stk)].kind = "listener" THEN "listener"
    ELSE IF stk[Len(stk)].kind = "observer" THEN "observer"
    ELSE IF stk[Len(stk)].pc = "reduce" THEN "reducer"
    ELSE "notify"

Ctx == CtxOf(stack)

UserCode == Ctx \in {"top", "listener", "reducer", "observer"}

\* the calls of the observable's subscribe that are in their first
\* observeState(): each of them goes on to subscribe
PendingObservers == Cardinality({k \in 1..Len(stack) : stack[k].kind = "observer"})

\* the calls so far that got past their checks (for the bound MaxCalls):
\* handles issued, handles revoked, rounds after the INIT round, and the
\* calls of the observable's subscribe that are in observer.next or ended by
\* its error
Calls == Len(subs) + Cardinality({h \in 1..Len(subs) : ~subs[h].isSubscribed})
         + (Len(rounds) - 1) + PendingObservers + observerErrors

\* the outcome of a call: who called, the argument, "ok" or the error, and
\* the value returned (0 when there is none)
Result(op, arg, res, val) ==
    [op |-> op, ctx |-> Ctx, arg |-> arg, res |-> res, val |-> val]
NoResult == [op |-> "none", ctx |-> "none", arg |-> "none", res |-> "ok", val |-> 0]

LiveHandles == {h \in 1..Len(subs) : subs[h].isSubscribed}

\* The frame of a dispatch that got past its checks: fn is the reducer that
\* line 274 calls, via the function of the store that made the dispatch
\* (dispatch itself when user code called it).  snapshot and live are
\* history: the pending array and the live handles when the reducer was
\* called and, from the commit on, as they were at the commit.  fresh is
\* history too: the listeners called, while this dispatch is on the stack,
\* since currentState last changed its value.  before and swapped are history
\* kept while the reducer runs: the reducer installed and the committed array
\* when the store was called, and whether the running reducer has called
\* replaceReducer with a function.
NoBefore == [reducer |-> "none", committed |-> <<>>]

DispatchFrame(type, arg, round, fn, via) ==
    [kind |-> "dispatch", pc |-> "reduce", type |-> type, arg |-> arg,
     listeners |-> 0, i |-> 0, round |-> round, fn |-> fn, via |-> via,
     snapshot |-> heap[nextListeners], live |-> LiveHandles, called |-> <<>>,
     fresh |-> {},
     before |-> [reducer |-> currentReducer, committed |-> heap[currentListeners]],
     swapped |-> FALSE]

ListenerFrame(fn, round) ==
    [kind |-> "listener", pc |-> "run", type |-> "none", arg |-> 0,
     listeners |-> 0, i |-> 0, round |-> round, fn |-> fn, via |-> "loop",
     snapshot |-> <<>>, live |-> {}, called |-> <<>>, fresh |-> {},
     before |-> NoBefore, swapped |-> FALSE]

\* history: line 274 has assigned currentState; when the value is a new one,
\* no listener has been called with it yet
noteState(stk, changed) ==
    [k \in 1..Len(stk) |-> IF changed THEN [stk[k] EXCEPT !.fresh = {}] ELSE stk[k]]

\* history: line 283 calls listener fn, with the state as it is now
noteCall(stk, fn) ==
    [k \in 1..Len(stk) |->
        IF stk[k].kind = "dispatch" THEN [stk[k] EXCEPT !.fresh = @ \cup {fn}]
        ELSE stk[k]]

\* observer.next(getState()) (line 339) is running, called by the first
\* observeState() of the observable's subscribe (line 343)
ObserverFrame(observer, state) ==
    [kind |-> "observer", pc |-> "run", type |-> "none", arg |-> state,
     listeners |-> 0, i |-> 0, round |-> 0, fn |-> observer,
     via |-> "observable.subscribe",
     snapshot |-> <<>>, live |-> {}, called |-> <<>>, fresh |-> {},
     before |-> NoBefore, swapped |-> FALSE]

\* the observer an observeState closure was made for
ObserverOf(fn) == subs[CHOOSE h \in 1..Len(subs) : subs[h].listener = fn].observer

\* the listener runs user code when called: a subscribed function does, and
\* observeState does when its observer has a next method (line 338)
RunsUserCode(fn) == fn \in Listeners \/ hasNext(ObserverOf(fn))

Round(type, status, result) ==
    [type |-> type, status |-> status, result |-> result]

\* createStore (lines 114-118) followed by dispatch({ type: ActionTypes.INIT })
\* (line 357): the store as it is returned
createStore ==
    /\ currentReducer = "R1"
    /\ \E preloadedState \in PreloadedStates :
          /\ currentState = reducer(preloadedState, INIT)
          /\ rounds = << Round(INIT, "done", reducer(preloadedState, INIT)) >>
    /\ heap = << <<>> >>
    /\ currentListeners = 1
    /\ nextListeners = 1
    /\ isDispatching = FALSE
    /\ subs = <<>>
    /\ stack = <<>>
    /\ ret = NoResult
    /\ observerErrors = 0

\* no function was composed
NoOut == [fn |-> [tag |-> "none"], called |-> FALSE, val |-> 0, trace |-> <<>>]

\* compose is not in use
noCompose ==
    /\ funcs = <<>>
    /\ args = <<>>
    /\ out = NoOut

\* no function is held
NoFunction == [tag |-> "none"]

\* createStore was called without an enhancer
noEnhancer ==
    /\ middlewares = <<>>
    /\ chain = <<>>
    /\ dispatchRef = NoFunction
    /\ phase = "none"
    /\ mwStack = <<>>
    /\ wrapped = 0

\* a store, created without enhancer
Init ==
    /\ createStore
    /\ noCompose
    /\ noEnhancer

\* ------------------------------------------------------------- getState
\* the check of getState (lines 143-149)
getStateGuard(dispatching) ==
    IF dispatching THEN "IllegalStateAccess" ELSE "ok"

\* getState (lines 142-152)
getState ==
    /\ UserCode
    /\ ret' = IF getStateGuard(isDispatching) # "ok"
              THEN Result("getState", "none", getStateGuard(isDispatching), 0)
              ELSE Result("getState", "none", "ok", currentState)
    /\ UNCHANGED <<currentReducer, currentState, heap, currentListeners,
                   nextListeners, isDispatching, subs, stack, rounds>>
    /\ UNCHANGED <<observerErrors, composeVars, enhancerVars>>

\* ------------------------------------------------------------ subscribe
\* subscribe without its isDispatching check
subscribeGuardNoFlag(listener, dispatching) ==
    IF ~isFunction(listener) THEN "InvalidArgument" ELSE "ok"

\* the checks of subscribe (lines 182-193)
subscribeGuard(listener, dispatching) ==
    IF ~isFunction(listener) THEN "InvalidArgument"
    ELSE IF dispatching THEN "IllegalStateAccess"
    ELSE "ok"

\* subscribe (lines 181-199, up to the return of the closure)
subscribe(listener) ==
    /\ UserCode
    /\ IF subscribeGuard(listener, isDispatching) # "ok"
       THEN /\ ret' = Result("subscribe", listener,
                              subscribeGuard(listener, isDispatching), 0)
            /\ UNCHANGED <<heap, nextListeners, subs>>
       ELSE /\ Len(subs) + PendingObservers < MaxHandles
            /\ Calls < MaxCalls
            /\ LET e == ensureCanMutateNextListeners(heap, currentListeners, nextListeners)
               IN  /\ nextListeners' = e.next
                   /\ heap' = [e.heap EXCEPT ![e.next] = Append(@, listener)]
            /\ subs' = Append(subs, [listener |-> listener, isSubscribed |-> TRUE,
                                     selfIn |-> 0, observer |-> "none"])
            /\ ret' = Result("subscribe", listener, "ok", Len(subs) + 1)
    /\ UNCHANGED <<currentReducer, currentState, currentListeners, isDispatching,
                   stack, rounds>>
    /\ UNCHANGED <<observerErrors, composeVars, enhancerVars>>

\* ---------------------------------------------------------- unsubscribe
\* unsubscribe without its isSubscribed check
unsubscribeGuardNoOnce(isSubscribed, dispatching) ==
    IF dispatching THEN "IllegalStateAccess" ELSE "ok"

\* unsubscribe without its isDispatching check
unsubscribeGuardNoFlag(isSubscribed, dispatching) ==
    IF ~isSubscribed THEN "noop" ELSE "ok"

\* the checks of unsubscribe (lines 201-210): "noop" is the silent return
unsubscribeGuard(isSubscribed, dispatching) ==
    IF ~isSubscribed THEN "noop"
    ELSE IF dispatching THEN "IllegalStateAccess"
    ELSE "ok"

\* unsubscribe (lines 200-217), the closure of handle h
unsubscribe(h) ==
    /\ UserCode
    /\ h \in 1..Len(subs)
    /\ LET g == unsubscribeGuard(subs[h].isSubscribed, isDispatching)
       IN  IF g # "ok"
           THEN /\ ret' = Result("unsubscribe",
                                  IF subs[h].isSubscribed THEN "live" ELSE "revoked",
                                  IF g = "noop" THEN "ok" ELSE g, h)
                /\ UNCHANGED <<heap, nextListeners, subs>>
           ELSE /\ Calls < MaxCalls
                /\ subs' = [subs EXCEPT ![h].isSubscribed = FALSE,
                                        ![h].selfIn =
                                            IF Ctx = "listener" /\ Top.fn = subs[h].listener
                                            THEN Top.round ELSE 0]
                /\ LET e == ensureCanMutateNextListeners(heap, currentListeners, nextListeners)
                       index == indexOf(e.heap[e.next], subs[h].listener)
                   IN  /\ nextListeners' = e.next
                       /\ heap' = [e.heap EXCEPT ![e.next] = splice1(@, index)]
                /\ ret' = Result("unsubscribe", "live", "ok", h)
    /\ UNCHANGED <<currentReducer, currentState, currentListeners, isDispatching,
                   stack, rounds>>
    /\ UNCHANGED <<observerErrors, composeVars, enhancerVars>>

\* ------------------------------------------------------------- dispatch
\* dispatch without its isDispatching check
dispatchGuardNoFlag(action, dispatching) ==
    IF ~isPlainObject(action) THEN "InvalidAction"
    ELSE IF action.type = "undefined" THEN "InvalidAction"
    ELSE "ok"

\* dispatch with the isDispatching check moved before the checks of the action
dispatchGuardFlagFirst(action, dispatching) ==
    IF dispatching THEN "IllegalStateAccess"
    ELSE IF ~isPlainObject(action) THEN "InvalidAction"
    ELSE IF action.type = "undefined" THEN "InvalidAction"
    ELSE "ok"

\* the checks of dispatch (lines 254-270)
dispatchGuard(action, dispatching) ==
    IF ~isPlainObject(action) THEN "InvalidAction"
    ELSE IF action.type = "undefined" THEN "InvalidAction"
    ELSE IF dispatching THEN "IllegalStateAccess"
    ELSE "ok"

\* the flag never raised
flagNeverSet == FALSE

\* isDispatching while the reducer runs (line 273)
flagInTry == TRUE

\* the reset written after the reducer call instead of in a finally block
flagResetWithoutFinally(threw) == threw

\* the reset done only when the reducer threw
flagResetOnlyOnThrow(threw) == ~threw

\* isDispatching when the try statement is left (lines 275-277), whether or
\* not the reducer threw
flagAfterTry(threw) == FALSE

\* the reducer called with the state the store was created with
reduceFromPreloaded(fn, state, type) == applyReducer(fn, Undefined, type)

\* the value line 274 assigns to currentState
reduce(fn, state, type) == applyReducer(fn, state, type)

\* the loop run over currentListeners without the assignment
commitNothing(cur, nxt) == cur

\* the array line 279 makes current and hands to the loop
commitListeners(cur, nxt) == nxt

\* dispatch, entry (lines 253-274): the checks, then isDispatching = true
\* and the call of the reducer with the current state
dispatchCall(action) ==
    /\ UserCode
    /\ IF dispatchGuard(action, isDispatching) # "ok"
       THEN /\ ret' = Result("dispatch", action,
                              dispatchGuard(action, isDispatching), 0)
            /\ UNCHANGED <<isDispatching, stack, rounds>>
       ELSE /\ Len(rounds) <= MaxRounds
            /\ Calls < MaxCalls
            /\ isDispatching' = flagInTry
            /\ stack' = Append(stack, DispatchFrame(action.type, currentState,
                                                    Len(rounds) + 1,
                                                    currentReducer, "dispatch"))
            /\ rounds' = Append(rounds, Round(action.type, "reducing", Undefined))
            /\ ret' = NoResult
    /\ UNCHANGED <<currentReducer, currentState, heap, currentListeners,
                   nextListeners, subs>>

\* store.dispatch(action), called by user code of the store
dispatch(action) ==
    /\ dispatchCall(action)
    /\ UNCHANGED <<observerErrors, composeVars, enhancerVars>>

\* the reducer returns (lines 274-279): the state is assigned, the flag is
\* reset, and nextListeners becomes currentListeners and the loop's array
reducerReturn ==
    /\ Ctx = "reducer"
    /\ currentState' = reduce(Top.fn, Top.arg, Top.type)
    /\ isDispatching' = flagAfterTry(FALSE)
    /\ LET listeners == commitListeners(currentListeners, nextListeners)
           g == collect(heap, listeners, nextListeners,
                        noteState([stack EXCEPT ![Len(stack)].pc = "notify",
                                                ![Len(stack)].before = NoBefore,
                                                ![Len(stack)].swapped = FALSE,
                                                ![Len(stack)].listeners = listeners,
                                                ![Len(stack)].snapshot = heap[nextListeners],
                                                ![Len(stack)].live = LiveHandles],
                                  reduce(Top.fn, Top.arg, Top.type) # currentState))
       IN  /\ currentListeners' = g.cur
           /\ nextListeners' = g.next
           /\ heap' = g.heap
           /\ stack' = g.stack
           /\ rounds' = [rounds EXCEPT ![Top.round].status = "notifying",
                                       ![Top.round].result = reduce(Top.fn, Top.arg, Top.type)]
    /\ ret' = NoResult
    /\ UNCHANGED <<currentReducer, subs>>
    /\ UNCHANGED <<observerErrors, composeVars, enhancerVars>>

\* the reducer throws (lines 274-277): finally resets the flag and the
\* error leaves dispatch
reducerThrow ==
    /\ Ctx = "reducer"
    /\ isDispatching' = flagAfterTry(TRUE)
    /\ stack' = Pop
    /\ rounds' = [rounds EXCEPT ![Top.round].status = "threw"]
    /\ ret' = [op |-> Top.via, ctx |-> CtxOf(Pop),
               arg |-> IF Top.via = "dispatch" THEN PlainAction(Top.type) ELSE Top.fn,
               res |-> "ReducerError", val |-> 0]
    /\ UNCHANGED <<currentReducer, currentState, heap, currentListeners,
                   nextListeners, subs>>
    /\ UNCHANGED <<observerErrors, composeVars, enhancerVars>>

\* one turn of the loop (lines 281-284): listeners[i] is called.  An
\* observeState calls getState and hands the state to observer.next, which
\* runs as the listener; without a next method it returns at once.
callListener ==
    /\ Ctx = "notify"
    /\ Top.i < Len(heap[Top.listeners])
    /\ LET listener == heap[Top.listeners][Top.i + 1]
           called == noteCall([stack EXCEPT ![Len(stack)].i = @ + 1,
                                            ![Len(stack)].called = Append(@, listener)],
                              listener)
       IN  stack' = IF listener \in Listeners
                    THEN Append(called, ListenerFrame(listener, Top.round))
                    ELSE IF RunsUserCode(listener)
                    THEN Append(called, [ListenerFrame(listener, Top.round)
                                            EXCEPT !.arg = currentState])
                    ELSE called
    /\ ret' = NoResult
    /\ UNCHANGED <<currentReducer, currentState, heap, currentListeners,
                   nextListeners, isDispatching, subs, rounds>>
    /\ UNCHANGED <<observerErrors, composeVars, enhancerVars>>

\* the listener returns to the loop
listenerReturn ==
    /\ Ctx = "listener"
    /\ stack' = Pop
    /\ ret' = NoResult
    /\ UNCHANGED <<currentReducer, currentState, heap, currentListeners,
                   nextListeners, isDispatching, subs, rounds>>
    /\ UNCHANGED <<observerErrors, composeVars, enhancerVars>>

\* the listener throws (line 283): nothing catches the error in dispatch, so
\* it ends the loop and leaves dispatch; the listeners after it in the array
\* are not called, and the state and the commit stay as they are.  The
\* outcome keeps, as history, the number of listeners the loop had called.
listenerThrow ==
    /\ Ctx = "listener"
    /\ LET d == stack[Len(stack) - 1]
           g == collect(heap, currentListeners, nextListeners,
                        SubSeq(stack, 1, Len(stack) - 2))
       IN  /\ currentListeners' = g.cur
           /\ nextListeners' = g.next
           /\ heap' = g.heap
           /\ stack' = g.stack
           /\ rounds' = [rounds EXCEPT ![d.round].status = "listenerThrew"]
           /\ ret' = [op |-> d.via, ctx |-> CtxOf(SubSeq(stack, 1, Len(stack) - 2)),
                      arg |-> IF d.via = "dispatch" THEN PlainAction(d.type) ELSE d.fn,
                      res |-> "ListenerError", val |-> Len(d.called)]
    /\ UNCHANGED <<currentReducer, currentState, isDispatching, subs>>
    /\ UNCHANGED <<observerErrors, composeVars, enhancerVars>>

\* the loop ends (line 281) and dispatch returns the action (line 286)
dispatchReturn ==
    /\ Ctx = "notify"
    /\ Top.i >= Len(heap[Top.listeners])
    /\ LET g == collect(heap, currentListeners, nextListeners, Pop)
       IN  /\ currentListeners' = g.cur
           /\ nextListeners' = g.next
           /\ heap' = g.heap
           /\ stack' = g.stack
    /\ rounds' = [rounds EXCEPT ![Top.round].status = "done"]
    /\ ret' = [op |-> Top.via, ctx |-> CtxOf(Pop),
               arg |-> IF Top.via = "dispatch" THEN PlainAction(Top.type) ELSE Top.fn,
               res |-> "ok", val |-> 0]
    /\ UNCHANGED <<currentReducer, currentState, isDispatching, subs>>
    /\ UNCHANGED <<observerErrors, composeVars, enhancerVars>>

Next ==
    \/ getState
    \/ \E listener \in Listeners \cup {NotAFunction} :
          subscribe(listener) /\ Len(subs') <= MaxSubs /\ Calls' <= MaxCallsStore
    \/ \E h \in 1..MaxSubs : unsubscribe(h) /\ Calls' <= MaxCallsStore
    \/ \E action \in ActionArgs : dispatch(action) /\ Calls' <= MaxCallsStore
    \/ reducerReturn
    \/ reducerThrow
    \/ callListener
    \/ listenerReturn
    \/ listenerThrow
    \/ dispatchReturn

Spec == Init /\ [][Next]_vars

\* ------------------------------------------------------- replaceReducer
\* the check of replaceReducer (lines 301-303)
replaceReducerGuard(nextReducer) ==
    IF nextReducer \notin Reducers THEN "InvalidArgument" ELSE "ok"

\* replaceReducer without its assignment
installNothing(cur, nextReducer) == cur

\* the value line 305 assigns to currentReducer
installReducer(cur, nextReducer) == nextReducer

\* replaceReducer (lines 300-313): the check, the assignment, and then
\* dispatch({ type: ActionTypes.REPLACE }) up to its call of the reducer;
\* the steps of dispatch carry on from there, and the dispatch's return or
\* throw is replaceReducer's
replaceReducer(nextReducer) ==
    /\ UserCode
    /\ IF replaceReducerGuard(nextReducer) # "ok"
       THEN /\ ret' = Result("replaceReducer", nextReducer,
                              replaceReducerGuard(nextReducer), 0)
            /\ UNCHANGED <<currentReducer, isDispatching, stack, rounds>>
       ELSE /\ currentReducer' = installReducer(currentReducer, nextReducer)
            /\ IF dispatchGuard(PlainAction(REPLACE), isDispatching) # "ok"
               THEN /\ ret' = Result("replaceReducer", nextReducer,
                                      dispatchGuard(PlainAction(REPLACE), isDispatching), 0)
                    /\ stack' = IF Ctx = "reducer"
                                THEN [stack EXCEPT ![Len(stack)].swapped = TRUE]
                                ELSE stack
                    /\ UNCHANGED <<isDispatching, rounds>>
               ELSE /\ Len(rounds) <= MaxRounds
                    /\ Calls < MaxCalls
                    /\ isDispatching' = flagInTry
                    /\ stack' = Append(stack,
                                       DispatchFrame(REPLACE, currentState, Len(rounds) + 1,
                                                     currentReducer', "replaceReducer"))
                    /\ rounds' = Append(rounds, Round(REPLACE, "reducing", Undefined))
                    /\ ret' = NoResult
    /\ UNCHANGED <<currentState, heap, currentListeners, nextListeners, subs>>
    /\ UNCHANGED <<observerErrors, composeVars, enhancerVars>>

\* The store with replaceReducer among its methods; one listener, few
\* handles and calls, and one action of each kind are enough here.
NextReplace ==
    \/ getState
    \/ \E listener \in {"L1", NotAFunction} :
          subscribe(listener) /\ Len(subs') <= MaxSubsReplace
                              /\ Calls' <= MaxCallsReplace
    \/ \E h \in 1..MaxSubsReplace : unsubscribe(h) /\ Calls' <= MaxCallsReplace
    \/ \E action \in {PlainAction("INC"), PlainAction("undefined")} :
          dispatch(action) /\ Calls' <= MaxCallsReplace
    \/ \E nextReducer \in Reducers \cup {NotAFunction} :
          replaceReducer(nextReducer) /\ Calls' <= MaxCallsReplace
    \/ reducerReturn
    \/ reducerThrow
    \/ callListener
    \/ listenerReturn
    \/ listenerThrow
    \/ dispatchReturn

SpecReplace == Init /\ [][NextReplace]_vars

\* ------------------------------------------------------------ listeners
\* The store used by listeners that subscribe and unsubscribe while they
\* are called, over more calls than the runs of the whole store make: one
\* valid action is enough here, and the reducer does not throw.
NextListeners ==
    \/ \E listener \in Listeners : subscribe(listener) /\ Len(subs') <= MaxSubs
    \/ \E h \in 1..MaxSubs : unsubscribe(h)
    \/ dispatch(PlainAction("INC"))
    \/ reducerReturn
    \/ callListener
    \/ listenerReturn
    \/ listenerThrow
    \/ dispatchReturn

SpecListeners == Init /\ [][NextListeners]_vars

\* ----------------------------------------------------------- observable
\* the check of the observable's subscribe (lines 333-335)
observerGuard(observer) ==
    IF typeofObserver(observer) # "object" \/ observer = "null"
    THEN "TypeError" ELSE "ok"

\* the calls of the observable's subscribe so far that got past its check
\* and that of getState: in observer.next, ended by its error, or subscribed
ObserverCalls ==
    PendingObservers + observerErrors
    + Cardinality({h \in 1..Len(subs) : subs[h].observer # "none"})

\* outerSubscribe(observeState) (line 344) getting past the checks of
\* subscribe, and the return of { unsubscribe } (line 345) to the code that
\* runs with the call stack stk
outerSubscribe(observer, stk) ==
    /\ LET e == ensureCanMutateNextListeners(heap, currentListeners, nextListeners)
       IN  /\ nextListeners' = e.next
           /\ heap' = [e.heap EXCEPT ![e.next] = Append(@, ObserveState(Len(subs) + 1))]
    /\ subs' = Append(subs, [listener |-> ObserveState(Len(subs) + 1),
                             isSubscribed |-> TRUE, selfIn |-> 0,
                             observer |-> observer])
    /\ stack' = stk
    /\ ret' = [op |-> "observable.subscribe", ctx |-> CtxOf(stk), arg |-> observer,
               res |-> "ok", val |-> Len(subs) + 1]

\* store[$$observable]().subscribe(observer) (lines 332-345), up to the
\* call of observer.next: the check, then observeState(), which calls
\* getState (line 339) and hands the state to observer.next when the observer
\* has a next method; without one, outerSubscribe follows at once
observableSubscribe(observer) ==
    /\ UserCode
    /\ IF observerGuard(observer) # "ok"
       THEN /\ ret' = Result("observable.subscribe", observer, observerGuard(observer), 0)
            /\ UNCHANGED <<heap, nextListeners, subs, stack>>
       ELSE IF hasNext(observer)
       THEN IF getStateGuard(isDispatching) # "ok"
            THEN /\ ret' = Result("observable.subscribe", observer,
                                   getStateGuard(isDispatching), 0)
                 /\ UNCHANGED <<heap, nextListeners, subs, stack>>
            ELSE /\ Len(subs) + PendingObservers < MaxHandles
                 /\ Calls < MaxCalls
                 /\ ObserverCalls < MaxObservers
                 /\ stack' = Append(stack, ObserverFrame(observer, currentState))
                 /\ ret' = NoResult
                 /\ UNCHANGED <<heap, nextListeners, subs>>
       ELSE IF subscribeGuard(ObserveState(Len(subs) + 1), isDispatching) # "ok"
       THEN /\ ret' = Result("observable.subscribe", observer,
                              subscribeGuard(ObserveState(Len(subs) + 1), isDispatching), 0)
            /\ UNCHANGED <<heap, nextListeners, subs, stack>>
       ELSE /\ Len(subs) + PendingObservers < MaxHandles
            /\ Calls < MaxCalls
            /\ ObserverCalls < MaxObservers
            /\ outerSubscribe(observer, stack)
    /\ UNCHANGED <<currentReducer, currentState, currentListeners, isDispatching, rounds>>
    /\ UNCHANGED <<observerErrors, composeVars, enhancerVars>>

\* observer.next returns to observeState, and line 344 subscribes the closure
observerReturn ==
    /\ Ctx = "observer"
    /\ IF subscribeGuard(ObserveState(Len(subs) + 1), isDispatching) # "ok"
       THEN /\ ret' = [op |-> "observable.subscribe", ctx |-> CtxOf(Pop),
                       arg |-> Top.fn,
                       res |-> subscribeGuard(ObserveState(Len(subs) + 1), isDispatching),
                       val |-> 0]
            /\ stack' = Pop
            /\ UNCHANGED <<heap, nextListeners, subs>>
       ELSE outerSubscribe(Top.fn, Pop)
    /\ UNCHANGED <<currentReducer, currentState, currentListeners, isDispatching, rounds>>
    /\ UNCHANGED <<observerErrors, composeVars, enhancerVars>>

\* observer.next throws: the error leaves the observable's subscribe before
\* line 344, so nothing is subscribed
observerThrow ==
    /\ Ctx = "observer"
    /\ stack' = Pop
    /\ ret' = [op |-> "observable.subscribe", ctx |-> CtxOf(Pop), arg |-> Top.fn,
               res |-> "ObserverError", val |-> 0]
    /\ UNCHANGED <<currentReducer, currentState, heap, currentListeners,
                   nextListeners, isDispatching, subs, rounds>>
    /\ observerErrors' = observerErrors + 1
    /\ UNCHANGED <<composeVars, enhancerVars>>

\* ------------------------------------------------------------- registry
\* The store used for its registry of listeners: one callback may be
\* subscribed through several handles, also through the observable;
\* listeners subscribe and unsubscribe while they are called, and one valid
\* action is enough.
NextRegistry ==
    \/ \E listener \in Listeners : subscribe(listener) /\ Calls' <= MaxCallsRegistry
    \/ \E observer \in ObserverArgs :
          observableSubscribe(observer) /\ Calls' <= MaxCallsRegistry
    \/ observerReturn
    \/ observerThrow
    \/ \E h \in 1..MaxHandles : unsubscribe(h) /\ Calls' <= MaxCallsRegistry
    \/ dispatch(PlainAction("INC")) /\ Calls' <= MaxCallsRegistry
    \/ reducerReturn
    \/ callListener
    \/ listenerReturn
    \/ listenerThrow
    \/ dispatchReturn

SpecRegistry == Init /\ [][NextRegistry]_vars

\* -------------------------------------------------------------- compose
\* Functions are values: arg => arg, a function the caller wrote, named, and
\* the arrow function that line 22 builds of two functions.
Identity == [tag |-> "id"]
Prim(name) == [tag |-> "prim", name |-> name]
Composite(a, b) == [tag |-> "comp", a |-> a, b |-> b]

\* The functions of applyMiddleware: store.dispatch, the function of lines
\* 22-27, the next => ... function a middleware returns (line 42), and the
\* action => ... function that one returns when it is called with next.
Raw == [tag |-> "raw"]
Placeholder == [tag |-> "placeholder"]
Wrapper(name) == [tag |-> "wrap", name |-> name]
Handler(name, next) == [tag |-> "handler", name |-> name, next |-> next]

\* The caller's functions: inc and dbl read their first argument only, sum
\* reads all it is given.  A missing argument is undefined, and so is
\* arithmetic on undefined.
PrimNames == {"inc", "dbl", "sum"}
Values == 0..1

RECURSIVE Sum(_)
Sum(a) ==
    IF a = <<>> THEN 0
    ELSE IF Head(a) = Undefined \/ Sum(Tail(a)) = Undefined THEN Undefined
    ELSE Head(a) + Sum(Tail(a))

prim(name, a) ==
    CASE name = "sum" -> Sum(a)
      [] name = "inc" -> IF a = <<>> \/ a[1] = Undefined THEN Undefined ELSE a[1] + 1
      [] name = "dbl" -> IF a = <<>> \/ a[1] = Undefined THEN Undefined ELSE 2 * a[1]

RECURSIVE call(_, _)
\* f(...a): the value returned and, in order, the calls of the caller's
\* functions it made, each with the arguments it received
call(f, a) ==
    CASE f.tag = "id" ->
            [val |-> IF a = <<>> THEN Undefined ELSE a[1], trace |-> <<>>]
      [] f.tag = "prim" ->
            [val |-> prim(f.name, a), trace |-> << [fn |-> f.name, args |-> a] >>]
      [] f.tag = "wrap" ->
            [val |-> Handler(f.name, a[1]), trace |-> << [fn |-> f.name, args |-> a] >>]
      [] f.tag = "comp" ->
            LET inner == call(f.b, a)
                outer == call(f.a, << inner.val >>)
            IN  [val |-> outer.val, trace |-> inner.trace \o outer.trace]

RECURSIVE reduceFlipped(_, _, _)
\* the reduce with the callback (a, b) => (...args) => b(a(...args))
reduceFlipped(fs, acc, i) ==
    IF i > Len(fs) THEN acc
    ELSE reduceFlipped(fs, Composite(fs[i], acc), i + 1)

\* compose applying its functions left to right
composeLeftToRight(fs) ==
    IF Len(fs) = 0 THEN Identity
    ELSE IF Len(fs) = 1 THEN fs[1]
    ELSE reduceFlipped(fs, fs[1], 2)

RECURSIVE reduceFuncs(_, _, _)
\* funcs.reduce((a, b) => (...args) => a(b(...args))) (line 22): no initial
\* value, so the accumulator starts as funcs[0] and the callback runs from
\* the second function on
reduceFuncs(fs, acc, i) ==
    IF i > Len(fs) THEN acc
    ELSE reduceFuncs(fs, Composite(acc, fs[i]), i + 1)

\* compose (compose.js lines 12-23)
compose(fs) ==
    IF Len(fs) = 0 THEN Identity
    ELSE IF Len(fs) = 1 THEN fs[1]
    ELSE reduceFuncs(fs, fs[1], 2)

FuncLists == UNION {[1..n -> {Prim(name) : name \in PrimNames}] : n \in 0..MaxFuncs}
ArgLists == UNION {[1..n -> Values] : n \in 0..MaxArgs}

\* a caller about to compose some functions and to call the result
InitCompose ==
    /\ createStore
    /\ noEnhancer
    /\ funcs \in FuncLists
    /\ args \in ArgLists
    /\ out = NoOut

\* const f = compose(...funcs)
composeFuncs ==
    /\ out = NoOut
    /\ out' = [NoOut EXCEPT !.fn = compose(funcs)]
    /\ UNCHANGED <<storeVars, funcs, args, enhancerVars>>

\* f(...args)
callComposed ==
    /\ out.fn.tag # "none"
    /\ ~out.called
    /\ out' = [fn |-> out.fn, called |-> TRUE,
               val |-> call(out.fn, args).val, trace |-> call(out.fn, args).trace]
    /\ UNCHANGED <<storeVars, funcs, args, enhancerVars>>

NextCompose ==
    \/ composeFuncs
    \/ callComposed

SpecCompose == InitCompose /\ [][NextCompose]_vars

\* ------------------------------------------------------ applyMiddleware
MiddlewareNames == {"A", "B"}
\* the lists handed to applyMiddleware, a middleware twice included; the
\* names are interchangeable, so the first of a list is called A
MiddlewareLists ==
    {ms \in UNION {[1..n -> MiddlewareNames] : n \in 0..MaxMiddlewares} :
        ms = <<>> \/ ms[1] = "A"}

\* what middleware code dispatches: a valid action and one without type
MwActions == {PlainAction("INC"), PlainAction("undefined")}

\* the frame of an action => ... function: calling is the call it has made
\* last, through next or through middlewareAPI.dispatch; base is the number
\* of frames of the store that were on the call stack when it was called,
\* which are the frames beneath it
MwFrame(h, base) == [h |-> h, calling |-> "none", base |-> base]

MwTop == mwStack[Len(mwStack)]

\* the function on top of the call stack is a middleware's action => ...
\* function: no frame of the store was pushed since it was called
HandlerOnTop == mwStack # <<>> /\ MwTop.base = Len(stack)

\* code of the store, or code the store has called (a reducer, a listener),
\* is on top of the call stack, or the stack is empty
StoreOnTop == ~HandlerOnTop

\* applyMiddleware has returned the store (lines 48-51): user code holds its
\* methods
StoreReturned == phase = "ready"

\* the code of a middleware's action => ... function is running: line 43
\* is still at work, or the store was returned
MwRunning == phase \in {"map", "ready"} /\ HandlerOnTop

\* let dispatch = store.dispatch
initialDispatchRaw == Raw

\* let dispatch = () => { throw ... } (lines 22-27)
initialDispatch == Placeholder

\* middlewareAPI.dispatch bound to the function dispatch held at first
forwardCaptured(first, now) == first

\* middlewareAPI.dispatch (line 31), (...args) => dispatch(...args): the
\* function the variable holds when the call is made
forwardTarget(first, now) == now

\* applyMiddleware(...middlewares)(createStore)(reducer) up to line 41: the
\* store is created, dispatch is the throwing function, no middleware was
\* called yet
InitMiddleware ==
    /\ createStore
    /\ noCompose
    /\ middlewares \in MiddlewareLists
    /\ chain = <<>>
    /\ dispatchRef = initialDispatch
    /\ phase = "map"
    /\ mwStack = <<>>
    /\ wrapped = 0

\* compose(...chain)(store.dispatch) (line 43): the value it returns and, in
\* order, the calls of the next => ... functions it makes, each with the
\* next it hands over
composedChain == call(compose(chain), << Raw >>)

\* line 42 is at work: the middleware after those that have returned runs
MiddlewareRuns ==
    /\ phase = "map"
    /\ mwStack = <<>> /\ stack = <<>>
    /\ Len(chain) < Len(middlewares)

\* line 43 is at work: the next => ... function after those that have
\* returned runs
WrapperRuns ==
    /\ phase = "map"
    /\ mwStack = <<>> /\ stack = <<>>
    /\ Len(chain) = Len(middlewares)
    /\ wrapped < Len(composedChain.trace)

\* the call line 43 is making: the function and the next it received
WrapperCall == composedChain.trace[wrapped + 1]

\* The call target(action), made with stk as the callers' stack: the
\* function of lines 22-27 throws; store.dispatch is dispatch (lines 253-274);
\* an action => ... function starts to run.
invoke(target, action, stk) ==
    IF target.tag = "placeholder"
    THEN /\ mwStack' = stk
         /\ ret' = Result("middlewareAPI.dispatch", action, "PrematureDispatch", 0)
         /\ UNCHANGED <<currentReducer, currentState, heap, currentListeners,
                        nextListeners, isDispatching, subs, stack, rounds>>
    ELSE IF target.tag = "raw"
    THEN /\ mwStack' = stk
         /\ dispatchCall(action)
    ELSE /\ target.tag = "handler"
         /\ Len(stk) < MaxDepth
         /\ mwStack' = Append(stk, MwFrame(target, Len(stack)))
         /\ ret' = NoResult
         /\ UNCHANGED <<currentReducer, currentState, heap, currentListeners,
                        nextListeners, isDispatching, subs, stack, rounds>>

\* code that runs before line 43 has assigned dispatch, a middleware (line
\* 42) or a next => ... function (called by line 43), calls
\* middlewareAPI.dispatch
setupDispatches(action) ==
    /\ MiddlewareRuns \/ WrapperRuns
    /\ invoke(forwardTarget(initialDispatch, dispatchRef), action, mwStack)
    /\ UNCHANGED <<observerErrors, composeVars, middlewares, chain, dispatchRef, phase, wrapped>>

\* middleware(middlewareAPI) returns its next => ... function (line 42)
middlewareReturns ==
    /\ MiddlewareRuns
    /\ chain' = Append(chain, Wrapper(middlewares[Len(chain) + 1]))
    /\ ret' = NoResult
    /\ UNCHANGED <<currentReducer, currentState, heap, currentListeners,
                   nextListeners, isDispatching, subs, stack, rounds>>
    /\ UNCHANGED <<observerErrors, composeVars, middlewares, dispatchRef, phase, mwStack, wrapped>>

\* a middleware, or a next => ... function, lets the error of the call it
\* made go: it leaves applyMiddleware, and no store is returned
middlewareThrows ==
    /\ MiddlewareRuns \/ WrapperRuns
    /\ ret.res # "ok"
    /\ phase' = "threw"
    /\ UNCHANGED <<storeVars, composeVars, middlewares, chain, dispatchRef, mwStack,
                   wrapped>>

\* a next => ... function, called by line 43, calls the next it was given:
\* store.dispatch for the last of the chain, otherwise the action => ...
\* function that the one after it has returned
wrapperNext(action) ==
    /\ WrapperRuns
    /\ invoke(WrapperCall.args[1], action, mwStack)
    /\ UNCHANGED <<observerErrors, composeVars, middlewares, chain, dispatchRef, phase, wrapped>>

\* a next => ... function returns its action => ... function to line 43
wrapperReturns ==
    /\ WrapperRuns
    /\ wrapped' = wrapped + 1
    /\ ret' = NoResult
    /\ UNCHANGED <<currentReducer, currentState, heap, currentListeners,
                   nextListeners, isDispatching, subs, stack, rounds>>
    /\ UNCHANGED <<observerErrors, composeVars, middlewares, chain, dispatchRef, phase, mwStack>>

\* dispatch = ... (line 43): what compose(...chain)(store.dispatch) has
\* returned is assigned, and the store is returned with it (lines 48-51)
installDispatch ==
    /\ phase = "map"
    /\ mwStack = <<>> /\ stack = <<>>
    /\ Len(chain) = Len(middlewares)
    /\ wrapped = Len(composedChain.trace)
    /\ dispatchRef' = composedChain.val
    /\ phase' = "ready"
    /\ ret' = NoResult
    /\ UNCHANGED <<currentReducer, currentState, heap, currentListeners,
                   nextListeners, isDispatching, subs, stack, rounds>>
    /\ UNCHANGED <<observerErrors, composeVars, middlewares, chain, mwStack, wrapped>>

\* user code, at top level, in a listener or in the reducer, calls dispatch
\* of the store that applyMiddleware returned
userDispatches(action) ==
    /\ StoreReturned
    /\ StoreOnTop
    /\ UserCode
    /\ invoke(dispatchRef, action, mwStack)
    /\ UNCHANGED <<observerErrors, composeVars, middlewares, chain, dispatchRef, phase, wrapped>>

\* a middleware's action => ... function calls next(action)
handlerNext(action) ==
    /\ MwRunning
    /\ invoke(MwTop.h.next, action, [mwStack EXCEPT ![Len(mwStack)].calling = "next"])
    /\ UNCHANGED <<observerErrors, composeVars, middlewares, chain, dispatchRef, phase, wrapped>>

\* a middleware's action => ... function calls middlewareAPI.dispatch(action)
handlerForward(action) ==
    /\ MwRunning
    /\ invoke(forwardTarget(initialDispatch, dispatchRef), action,
              [mwStack EXCEPT ![Len(mwStack)].calling = "forward"])
    /\ UNCHANGED <<observerErrors, composeVars, middlewares, chain, dispatchRef, phase, wrapped>>

\* a middleware's action => ... function returns
handlerReturns ==
    /\ MwRunning
    /\ mwStack' = SubSeq(mwStack, 1, Len(mwStack) - 1)
    /\ ret' = NoResult
    /\ UNCHANGED <<currentReducer, currentState, heap, currentListeners,
                   nextListeners, isDispatching, subs, stack, rounds>>
    /\ UNCHANGED <<observerErrors, composeVars, middlewares, chain, dispatchRef, phase, wrapped>>

\* a middleware's action => ... function lets the error of the call it made
\* go, to its own caller
handlerThrows ==
    /\ MwRunning
    /\ ret.res # "ok"
    /\ mwStack' = SubSeq(mwStack, 1, Len(mwStack) - 1)
    /\ UNCHANGED <<storeVars, composeVars, middlewares, chain, dispatchRef, phase,
                   wrapped>>

\* The enhanced store.  While lines 42-43 run, user code holds
\* middlewareAPI and next only; once the store is returned it holds the
\* store's methods ({ ...store, dispatch }, lines 48-51), dispatch being the
\* composed function.  The steps of the store's dispatch go on when no
\* middleware function was called since.  One listener and one other
\* reducer are enough here; the store's observable, which reaches the store
\* through subscribe and getState only, is in the runs about the registry.
NextMiddleware ==
    \/ \E action \in MwActions : setupDispatches(action)
    \/ middlewareReturns
    \/ middlewareThrows
    \/ \E action \in MwActions : wrapperNext(action) /\ Calls' <= MaxCallsMiddleware
    \/ wrapperReturns
    \/ installDispatch
    \/ \E action \in MwActions : userDispatches(action) /\ Calls' <= MaxCallsMiddleware
    \/ \E action \in MwActions : handlerNext(action) /\ Calls' <= MaxCallsMiddleware
    \/ \E action \in MwActions : handlerForward(action)
    \/ handlerReturns
    \/ handlerThrows
    \/ StoreReturned /\ getState
    \/ StoreReturned /\ subscribe("L1") /\ Len(subs') <= MaxSubsMiddleware
                     /\ Calls' <= MaxCallsMiddleware
    \/ StoreReturned /\ \E h \in 1..MaxSubsMiddleware :
                            unsubscribe(h) /\ Calls' <= MaxCallsMiddleware
    \/ StoreReturned /\ replaceReducer("R2") /\ Calls' <= MaxCallsMiddleware
    \/ StoreOnTop /\ reducerReturn
    \/ StoreOnTop /\ reducerThrow
    \/ StoreOnTop /\ callListener
    \/ StoreOnTop /\ listenerReturn
    \/ StoreOnTop /\ listenerThrow
    \/ StoreOnTop /\ dispatchReturn

SpecMiddleware == InitMiddleware /\ [][NextMiddleware]_vars

\* =============================================================== claims
\* the step starts a round: a dispatch has got past its checks
RoundStarts == Len(rounds') > Len(rounds)

Count(seq, x) == Cardinality({k \in 1..Len(seq) : seq[k] = x})

DispatchFrames == {k \in 1..Len(stack) : stack[k].kind = "dispatch"}
Notifying == {k \in DispatchFrames : stack[k].pc = "notify"}
Reducing == {k \in DispatchFrames : stack[k].pc = "reduce"}

\* the loop of frame k has ended: it is running and its index has reached the
\* length of its array (line 281)
LoopEnded(k) == k = Len(stack) /\ stack[k].i >= Len(heap[stack[k].listeners])

\* the handles of listener l among a set of handles
HandlesOf(l, hs) == {h \in hs : subs[h].listener = l}

RECURSIVE FoldRounds(_, _)
\* the left fold of the reducer over the actions of rounds 2..n, from the
\* state the INIT round left
FoldRounds(s0, n) ==
    IF n <= 1 THEN s0
    ELSE reducer(FoldRounds(s0, n - 1), rounds[n].type)

\* the rounds whose reducer has returned: they have assigned the state
Committed ==
    {n \in 1..Len(rounds) : rounds[n].status \in {"notifying", "done", "listenerThrew"}}
NoReducerThrew == \A n \in 1..Len(rounds) : rounds[n].status # "threw"

\* C1: when no reducer call threw, the state is the left fold of the reducer
\* over the actions dispatched so far, starting from the state the INIT round
\* left, and a getState that returns hands back exactly that value; this
\* holds whatever subscribe, unsubscribe and getState calls came in between.
C1_StateIsLeftFold ==
    NoReducerThrew =>
        LET n == IF Committed = {} THEN 0
                 ELSE CHOOSE m \in Committed : \A j \in Committed : j <= m
        IN  /\ Committed = 1..n
            /\ currentState = FoldRounds(rounds[1].result, n)
            /\ (ret.op = "getState" /\ ret.res = "ok") => ret.val = currentState
            /\ (stack = <<>>) => n = Len(rounds)

\* two dispatches at top level, INC then DBL, with a subscription around:
\* getState returns (0 + 1) * 2
C1_Witness ==
    /\ stack = <<>>
    /\ Len(rounds) = 3
    /\ rounds[2].type = "INC" /\ rounds[3].type = "DBL"
    /\ NoReducerThrew
    /\ Len(subs) >= 1
    /\ ret.op = "getState" /\ ret.ctx = "top" /\ ret.val = 2

\* C2: the listeners a round calls are exactly the entries of the pending
\* array as it stood at the round's commit, one call per entry and in the
\* order of the array, whatever subscribe and unsubscribe calls are made
\* meanwhile: at every moment the calls made are the first i entries, and
\* when the round's dispatch ends, all of them were called.
C2_EveryRoundCallsItsSnapshot ==
    /\ [](\A k \in Notifying :
            /\ stack[k].i <= Len(stack[k].snapshot)
            /\ stack[k].called = SubSeq(stack[k].snapshot, 1, stack[k].i)
            /\ LoopEnded(k) => stack[k].called = stack[k].snapshot)
    /\ [][\A k \in Notifying :
             Len(stack') < k => stack[k].called = stack[k].snapshot
       ]_vars

\* a round committed L1 and L2; L1 revoked the handle of L2 and then threw:
\* the dispatch has ended with L1's error after one call, L2 was not called
\* although the committed array holds it
C2_Witness ==
    /\ stack = <<>>
    /\ ret.op = "dispatch" /\ ret.res = "ListenerError" /\ ret.val = 1
    /\ rounds[2].status = "listenerThrew"
    /\ heap[currentListeners] = << "L1", "L2" >>
    /\ heap[nextListeners] = << "L1" >>
    /\ subs[1].isSubscribed /\ ~subs[2].isSubscribed

\* C3: a handle revoked while a round is notifying still counts for that
\* round when it was live at the round's commit: the round's array holds its
\* listener once per handle live at the commit, and the round ends having
\* called it that often.  A handle revoked before a round commits does not
\* count for it: a listener with no handle live at the commit is not called.
C3_RevokedHandle ==
    \A k \in Notifying : \A h \in 1..Len(subs) :
        ~subs[h].isSubscribed =>
            LET l == subs[h].listener
                expected == Cardinality(HandlesOf(l, stack[k].live))
            IN  /\ Count(heap[stack[k].listeners], l) = expected
                /\ Count(stack[k].called, l) <= expected
                /\ LoopEnded(k) => Count(stack[k].called, l) = expected
                /\ (h \notin stack[k].live /\ HandlesOf(l, stack[k].live) = {})
                       => Count(stack[k].called, l) = 0

\* L1, while it was called in one round, unsubscribed itself and subscribed
\* L2; a later round has ended having called only L2
C3_Witness ==
    /\ Len(subs) = 2
    /\ subs[1].listener = "L1" /\ subs[1].selfIn = 2 /\ ~subs[1].isSubscribed
    /\ subs[2].listener = "L2" /\ subs[2].isSubscribed
    /\ \E k \in Notifying :
          /\ stack[k].round = 3
          /\ LoopEnded(k)
          /\ stack[k].called = << "L2" >>
    /\ rounds[2].status = "done"

\* C4: every round calls a listener exactly once per handle of it that was
\* live (issued and not yet revoked) when the round committed: a subscribed
\* callback is called once by each round that commits after subscribe
\* returned, and not by a round that committed before; subscribe itself calls
\* nothing.
C4_OncePerLiveHandle ==
    /\ \A k \in Notifying : \A l \in Listeners :
          LET expected == Cardinality(HandlesOf(l, stack[k].live))
          IN  /\ Count(heap[stack[k].listeners], l) = expected
              /\ Count(stack[k].called, l) <= expected
              /\ LoopEnded(k) => Count(stack[k].called, l) = expected
    /\ (ret.op = "subscribe" /\ ret.res = "ok") =>
          /\ subs[ret.val].listener = ret.arg /\ subs[ret.val].isSubscribed
          /\ \A k \in DispatchFrames : ret.val \notin stack[k].live

\* a round has ended having called L1 once, its only live handle, and not L2,
\* which was subscribed while the round was notifying
C4_Witness ==
    \E k \in Notifying :
        /\ LoopEnded(k)
        /\ stack[k].live = {1}
        /\ stack[k].called = << "L1" >>
        /\ Len(subs) = 2 /\ subs[1].listener = "L1" /\ subs[2].listener = "L2"
        /\ subs[1].isSubscribed /\ subs[2].isSubscribed
        /\ stack[k].round = 3

\* C5: a dispatch called by the reducer fails: with IllegalStateAccess when
\* its action is valid; no second reducer call starts and the state is the
\* one the running reducer was given.  When no call is on the stack the flag
\* is false, and a valid action dispatched at top level never fails with
\* IllegalStateAccess, also after a reducer propagated the nested error.
C5_NestedDispatchFails ==
    /\ (ret.op = "dispatch" /\ ret.ctx = "reducer") =>
          /\ ret.res \in {"IllegalStateAccess", "InvalidAction"}
          /\ ret.arg \in ValidActions => ret.res = "IllegalStateAccess"
          /\ Ctx = "reducer" /\ isDispatching
          /\ Cardinality(Reducing) = 1
          /\ currentState = Top.arg
    /\ (stack = <<>>) => ~isDispatching
    /\ (ret.op = "dispatch" /\ ret.ctx = "top" /\ ret.arg \in ValidActions) =>
          ret.res \in {"ok", "ReducerError", "ListenerError"}

\* round 2's reducer threw; round 3 was accepted all the same, and the
\* dispatch its reducer calls fails with IllegalStateAccess
C5_Witness ==
    /\ Len(rounds) = 3 /\ rounds[2].status = "threw" /\ rounds[3].status = "reducing"
    /\ Len(stack) = 1
    /\ ret.op = "dispatch" /\ ret.ctx = "reducer"
    /\ ret.arg \in ValidActions /\ ret.res = "IllegalStateAccess"

\* C6: the flag is true exactly while a reducer runs; when a dispatch that
\* called the reducer has ended, by returning or because the reducer threw,
\* the flag is false, and the reducer's error has reached the caller of
\* dispatch.
C6_FlagResetOnThrow ==
    /\ isDispatching <=> Ctx = "reducer"
    /\ (ret.op = "dispatch" /\ ret.res \in {"ok", "ReducerError", "ListenerError"}) =>
          ~isDispatching
    /\ (ret.res = "ReducerError") =>
          /\ ret.op = "dispatch" /\ ret.ctx = Ctx
          /\ \E n \in 1..Len(rounds) : rounds[n].status = "threw"

\* a reducer threw in a dispatch made at top level: the error is back at top
\* level and the store is idle
C6_Witness ==
    /\ ret.op = "dispatch" /\ ret.res = "ReducerError" /\ ret.ctx = "top"
    /\ stack = <<>>
    /\ ~isDispatching

\* C7 as stated: no round starts before the rounds that started earlier have
\* finished notifying, so at most one dispatch is ever on the call stack.
C7_NoNestedRounds == Cardinality(DispatchFrames) <= 1

\* C7, amended: at most one reducer call is ever active, and it is the
\* innermost call; every other dispatch on the stack is in its notification
\* loop, waiting for the listener it called, and it is that listener that
\* called the dispatch nested in it.
C7_OneTransitionAtATime ==
    /\ Cardinality(Reducing) <= 1
    /\ \A k \in DispatchFrames :
          /\ k < Len(stack) => stack[k].pc = "notify" /\ stack[k + 1].kind = "listener"
          /\ k > 1 => stack[k - 1].kind = "listener"
    /\ \A k \in 1..Len(stack) :
          (stack[k].kind = "listener" /\ k > 1) => stack[k - 1].kind = "dispatch"

\* a listener of a round that is still notifying has called dispatch, and
\* the reducer of the nested round is running
C7_Witness ==
    /\ Cardinality(DispatchFrames) = 2
    /\ Cardinality(Notifying) = 1
    /\ Ctx = "reducer"
    /\ isDispatching

\* C8: called by the reducer, getState fails with IllegalStateAccess and
\* returns no value, and subscribe with a function fails with
\* IllegalStateAccess and returns no handle; while the reducer runs the
\* pending array and the live handles stay as they were when it was called.
C8_ReadAndSubscribeFailInReducer ==
    /\ (ret.op = "getState" /\ ret.ctx = "reducer") =>
          ret.res = "IllegalStateAccess" /\ ret.val = 0
    /\ (ret.op = "subscribe" /\ ret.ctx = "reducer" /\ ret.arg \in Listeners) =>
          ret.res = "IllegalStateAccess" /\ ret.val = 0
    /\ Ctx = "reducer" =>
          /\ heap[nextListeners] = Top.snapshot
          /\ LiveHandles = Top.live

\* the reducer of a store that has a subscriber has called subscribe(L2)
C8_Witness ==
    /\ ret.op = "subscribe" /\ ret.ctx = "reducer" /\ ret.arg = "L2"
    /\ ret.res = "IllegalStateAccess"
    /\ heap[nextListeners] = << "L1" >>
    /\ Ctx = "reducer"

\* C9: unsubscribe on a handle that is already revoked throws nothing and
\* changes neither array nor any handle, whether or not the reducer is
\* running; the first unsubscribe that gets past the checks revokes the
\* handle and takes exactly one entry, one of its listener, out of the
\* pending array, leaving the committed array as it is.
C9_UnsubscribeIdempotent ==
    [][\A h \in 1..Len(subs) :
          (ret'.op = "unsubscribe" /\ unsubscribe(h)) =>
              IF ~subs[h].isSubscribed
              THEN /\ ret'.res = "ok"
                   /\ UNCHANGED <<heap, currentListeners, nextListeners, subs>>
              ELSE ~isDispatching =>
                      /\ ret'.res = "ok"
                      /\ ~subs'[h].isSubscribed
                      /\ Len(heap'[nextListeners']) = Len(heap[nextListeners]) - 1
                      /\ \A l \in Listeners :
                            Count(heap'[nextListeners'], l) =
                               Count(heap[nextListeners], l)
                                  - (IF l = subs[h].listener THEN 1 ELSE 0)
                      /\ heap'[currentListeners'] = heap[currentListeners]
    ]_vars

\* a revoked handle's unsubscribe was called again, by the reducer, and
\* returned; the other subscriber is still pending
C9_Witness ==
    /\ ret.op = "unsubscribe" /\ ret.arg = "revoked" /\ ret.res = "ok"
    /\ ret.ctx = "reducer"
    /\ Len(heap[nextListeners]) = 1

\* C10 as stated: unsubscribe fails with IllegalStateAccess whenever it is
\* called while the reducer runs.
C10_AlwaysFailsInReducer ==
    [][\A h \in 1..Len(subs) :
          (isDispatching /\ ret'.op = "unsubscribe" /\ unsubscribe(h)) =>
              ret'.res = "IllegalStateAccess"
    ]_vars

\* C10, amended: unsubscribe on a handle not yet revoked fails with
\* IllegalStateAccess when it is called while the reducer runs, and leaves
\* both arrays and the handle as they were.
C10_LiveHandleFailsInReducer ==
    [][\A h \in 1..Len(subs) :
          (isDispatching /\ subs[h].isSubscribed /\ ret'.op = "unsubscribe"
              /\ unsubscribe(h)) =>
              /\ ret'.res = "IllegalStateAccess"
              /\ UNCHANGED <<heap, currentListeners, nextListeners, subs>>
    ]_vars

\* the reducer has called the unsubscribe of a live handle: the call failed
\* and the handle is still live
C10_Witness ==
    /\ ret.op = "unsubscribe" /\ ret.arg = "live" /\ ret.ctx = "reducer"
    /\ ret.res = "IllegalStateAccess"
    /\ subs[ret.val].isSubscribed
    /\ isDispatching

\* C11: whenever a listener is running, isDispatching is false, and none of
\* the calls a listener makes into the store, getState, subscribe,
\* unsubscribe or dispatch, fails with IllegalStateAccess: getState returns
\* the current state, subscribe with a function returns a handle, and a
\* dispatch with a valid action is accepted.
C11_ListenersRunUnflagged ==
    /\ Ctx = "listener" => ~isDispatching
    /\ ret.ctx = "listener" =>
          /\ ret.res # "IllegalStateAccess"
          /\ ret.op = "getState" => ret.res = "ok" /\ ret.val = currentState
          /\ (ret.op = "subscribe" /\ ret.arg \in Listeners) => ret.res = "ok"
          /\ ret.op = "unsubscribe" => ret.res = "ok"
          /\ (ret.op = "dispatch" /\ ret.arg \in ValidActions) =>
                ret.res \in {"ok", "ReducerError", "ListenerError"}

\* a listener called by round 2 has dispatched a valid action: the nested
\* round has run its reducer and its loop and has returned to the listener
C11_Witness ==
    /\ Ctx = "listener"
    /\ ret.op = "dispatch" /\ ret.ctx = "listener" /\ ret.res = "ok"
    /\ Top.round = 2
    /\ Len(rounds) = 3 /\ rounds[3].status = "done"

\* C17: dispatch checks its argument before the flag.  An action that is no
\* plain object, or that has no type, fails with InvalidAction in every state
\* of the store, also while the reducer runs; IllegalStateAccess is the
\* outcome exactly for a valid action dispatched while the reducer runs.  A
\* dispatch that fails in one of these three ways calls no reducer, starts no
\* round, leaves the state, the flag and both arrays as they were (the
\* pending array is not committed) and calls no listener.
C17_ArgumentBeforeFlag ==
    [][(RoundStarts \/ ret'.op = "dispatch") =>
          \A action \in ActionArgs :
              (((RoundStarts /\ action \in ValidActions)
                    \/ (ret'.op = "dispatch" /\ ret'.arg = action))
                  /\ dispatch(action)) =>
                  /\ action \in InvalidActions => ret'.res = "InvalidAction"
                  /\ (action \in ValidActions /\ isDispatching) =>
                        ret'.res = "IllegalStateAccess"
                  /\ ret'.res = "IllegalStateAccess" =>
                        action \in ValidActions /\ isDispatching
                  /\ ret'.res \in {"InvalidAction", "IllegalStateAccess"} =>
                        UNCHANGED <<currentState, heap, currentListeners, nextListeners,
                                    isDispatching, subs, stack, rounds>>
    ]_vars

\* the reducer has dispatched a class instance that has a type: the failure
\* is InvalidAction although the flag is true
C17_Witness ==
    /\ ret.op = "dispatch" /\ ret.ctx = "reducer"
    /\ ret.arg = [typeof |-> "object", protos |-> 2, type |-> "INC"]
    /\ ret.res = "InvalidAction"
    /\ isDispatching
    /\ Len(heap[nextListeners]) = 1

\* C19: copy-on-write of the listener arrays.  Right after every commit the
\* committed and the pending reference name the same array, the one that was
\* pending.  A subscribe or unsubscribe that gets past its checks while the
\* two references are the same (the first after a commit) allocates a copy
\* and changes the copy; while they differ (the later ones) it changes the
\* pending array it finds and allocates nothing.  Either way no array but
\* the pending one changes: not the committed array, and not the array a
\* running loop iterates.
C19_CopyOnWrite ==
    [][/\ reducerReturn =>
             /\ currentListeners' = nextListeners'
             /\ heap'[currentListeners'] = heap[nextListeners]
             /\ stack'[Len(stack')].listeners = currentListeners'
       /\ (subs' # subs) =>
             /\ IF nextListeners = currentListeners
                THEN /\ Len(heap') = Len(heap) + 1
                     /\ nextListeners' = Len(heap) + 1
                ELSE /\ Len(heap') = Len(heap)
                     /\ nextListeners' = nextListeners
             /\ heap'[nextListeners'] # heap[nextListeners]
             /\ nextListeners' # currentListeners'
             /\ currentListeners' = currentListeners
             /\ \A r \in 1..Len(heap) : r # nextListeners' => heap'[r] = heap[r]
             /\ \A k \in Notifying :
                   /\ stack'[k].listeners = stack[k].listeners
                   /\ heap'[stack'[k].listeners] = stack[k].snapshot
    ]_vars

\* a listener called by a round over << L1 >> has unsubscribed L1, which made
\* the copy, and then subscribed L2, which changed that copy in place: two
\* arrays exist, and the committed one is as the round found it
C19_Witness ==
    /\ Ctx = "listener"
    /\ ret.op = "subscribe" /\ ret.res = "ok" /\ ret.arg = "L2"
    /\ Len(heap) = 2
    /\ heap[currentListeners] = << "L1" >>
    /\ heap[nextListeners] = << "L2" >>
    /\ ~subs[1].isSubscribed

\* the state never takes the same value twice: every dispatch so far was INC
OnlyINC == \A n \in 2..Len(rounds) : rounds[n].type = "INC"

\* C16 as stated: when a dispatch is about to return, every subscriber whose
\* handle was live when that dispatch started has been called, while the
\* dispatch was running, at a moment when the state already had the value it
\* has at the return, whatever nested dispatch, subscribe or unsubscribe the
\* listeners made.
C16_AllRegisteredSawLatest ==
    \A k \in Notifying :
        (LoopEnded(k) /\ OnlyINC) =>
            \A h \in stack[k].live : subs[h].listener \in stack[k].fresh

\* the step is a call of replaceReducer with a function
ReplaceCall == \E nextReducer \in Reducers : replaceReducer(nextReducer)

\* C12 as stated: every replaceReducer call with a function installs it and
\* then runs one round with the REPLACE action.
C12_EveryReplaceRunsARound ==
    [][\A nextReducer \in Reducers :
          replaceReducer(nextReducer) =>
              /\ currentReducer' = nextReducer
              /\ Len(rounds') = Len(rounds) + 1
              /\ rounds'[Len(rounds')].type = REPLACE
    ]_vars

\* C12, amended: the INIT round is the first round and the only one of its
\* type, and REPLACE is another type.  Every replaceReducer call with a
\* function installs it; called while no reducer runs it then starts exactly
\* one round, of type REPLACE, in which the new function is called with the
\* state the old one left, and it returns when that round does; called while
\* a reducer runs its dispatch fails with IllegalStateAccess and no round
\* starts.  Every round is computed by the function installed when it
\* starts, from the state then current; REPLACE rounds start in
\* replaceReducer only, and only replaceReducer changes the function.
C12_BootstrapRounds ==
    /\ [](/\ INIT # REPLACE
          /\ rounds[1].type = INIT
          /\ \A n \in 2..Len(rounds) : rounds[n].type # INIT)
    /\ [][/\ \A nextReducer \in Reducers :
                replaceReducer(nextReducer) =>
                    /\ currentReducer' = nextReducer
                    /\ IF isDispatching
                       THEN /\ ret'.res = "IllegalStateAccess"
                            /\ Len(stack') = Len(stack)
                            /\ UNCHANGED <<currentState, rounds>>
                       ELSE /\ RoundStarts
                            /\ rounds'[Len(rounds')].type = REPLACE
                            /\ stack'[Len(stack')].via = "replaceReducer"
                            /\ stack'[Len(stack')].fn = nextReducer
          /\ RoundStarts =>
                /\ Len(rounds') = Len(rounds) + 1
                /\ stack'[Len(stack')].round = Len(rounds')
                /\ stack'[Len(stack')].fn = currentReducer'
                /\ stack'[Len(stack')].arg = currentState
                /\ rounds'[Len(rounds')].type = REPLACE <=> ReplaceCall
          /\ reducerReturn =>
                /\ currentState' = applyReducer(Top.fn, currentState, Top.type)
                /\ rounds'[Top.round].result = currentState'
          /\ (dispatchReturn /\ Top.via = "replaceReducer") =>
                /\ ret'.op = "replaceReducer" /\ ret'.res = "ok"
                /\ Len(rounds') = Len(rounds)
          /\ currentReducer' # currentReducer => ReplaceCall
      ]_vars

\* R2 was installed at top level: its REPLACE round took the state from 0 to
\* 10, and the INC dispatched afterwards was computed by R2 from there
C12_Witness ==
    /\ stack = <<>>
    /\ Len(rounds) = 3
    /\ rounds[2].type = REPLACE /\ rounds[2].status = "done"
    /\ rounds[3].type = "INC" /\ rounds[3].status = "done"
    /\ currentReducer = "R2"
    /\ currentState = 13

\* the step ends a call into the store by an error
Raises == ret'.res # "ok"

\* C20 as stated: a call into the store that ends by an error leaves the
\* state, the installed reducer and both listener arrays as they were before
\* the call, and calls no listener; for a dispatch or replaceReducer whose
\* reducer throws, "before the call" is when the store was entered.
C20_FailuresChangeNothing ==
    [][Raises =>
          /\ UNCHANGED <<currentState, currentReducer, heap, currentListeners,
                         nextListeners>>
          /\ reducerThrow =>
                /\ currentState' = Top.arg
                /\ currentReducer' = Top.before.reducer
                /\ heap'[nextListeners'] = Top.snapshot
                /\ heap'[currentListeners'] = Top.before.committed
                /\ Top.called = <<>>
    ]_vars

\* C20, amended: a call into the store that ends by an error leaves the state
\* and both listener arrays as they were before the call, starts no round
\* but the one that threw, and calls no listener.  It leaves the installed
\* reducer as it was too, unless it is replaceReducer called with a function,
\* or a dispatch whose reducer made such a call: replaceReducer installs the
\* function before its dispatch, so the function stays installed when that
\* dispatch fails because a reducer is running or because the new function
\* throws.  A dispatch that ends by a listener's error is no such call: its
\* reducer had returned, so it has assigned the state, committed the pending
\* array and called the listeners up to the one that threw; the error itself
\* changes nothing more.
C20_FailureAtomicity ==
    [][Raises =>
          /\ UNCHANGED <<currentState, subs>>
          /\ heap'[nextListeners'] = heap[nextListeners]
          /\ heap'[currentListeners'] = heap[currentListeners]
          /\ ~listenerThrow => UNCHANGED <<heap, currentListeners, nextListeners>>
          /\ listenerThrow =>
                /\ rounds[stack[Len(stack) - 1].round].status = "notifying"
                /\ stack[Len(stack) - 1].called # <<>>
                /\ UNCHANGED currentReducer
          /\ Len(rounds') = Len(rounds)
          /\ Len(stack') <= Len(stack)
          /\ \A k \in 1..Len(stack') : stack'[k].called = stack[k].called
          /\ currentReducer' # currentReducer =>
                /\ ReplaceCall
                /\ isDispatching /\ ret'.res = "IllegalStateAccess"
                /\ currentReducer' = ret'.arg
          /\ reducerThrow =>
                /\ currentState' = Top.arg
                /\ heap'[nextListeners'] = Top.snapshot
                /\ heap'[currentListeners'] = Top.before.committed
                /\ Top.called = <<>>
                /\ (Top.via = "dispatch" /\ ~Top.swapped) =>
                      currentReducer' = Top.before.reducer
                /\ (Top.via = "replaceReducer" /\ ~Top.swapped) =>
                      currentReducer' = Top.fn
    ]_vars

\* replaceReducer(R2) was called at top level on a store with a subscriber,
\* and R2 threw on the REPLACE action: the state and the arrays are as they
\* were, nobody was called, and R2 is installed
C20_Witness ==
    /\ ret.op = "replaceReducer" /\ ret.res = "ReducerError" /\ ret.ctx = "top"
    /\ ret.arg = "R2"
    /\ stack = <<>>
    /\ currentReducer = "R2"
    /\ currentState = 0
    /\ heap[nextListeners] = << "L1" >>
    /\ rounds[2].type = REPLACE /\ rounds[2].status = "threw"

RECURSIVE Nested(_, _, _)
\* f_k(f_k+1(... f_n(a...))), written out
Nested(fs, k, a) ==
    IF k = Len(fs) THEN prim(fs[k].name, a)
    ELSE prim(fs[k].name, << Nested(fs, k + 1, a) >>)

\* C15: compose() is arg => arg, so called it returns its first argument and
\* calls nothing; compose(f) is f itself, not a wrapper of it; and for n >= 2
\* functions the result, called with some arguments, returns
\* f1(f2(... fn(arguments))): it calls fn first, with all the arguments, and
\* then every other function, right to left, with one argument, the value
\* its right neighbour returned.
C15_ComposeRightToLeft ==
    LET n == Len(funcs)
    IN  /\ out.fn.tag # "none" =>
              /\ n = 0 => out.fn = Identity
              /\ n = 1 => out.fn = funcs[1]
        /\ out.called =>
              /\ n = 0 =>
                    /\ out.val = (IF args = <<>> THEN Undefined ELSE args[1])
                    /\ out.trace = <<>>
              /\ n = 1 =>
                    /\ out.val = prim(funcs[1].name, args)
                    /\ out.trace = << [fn |-> funcs[1].name, args |-> args] >>
              /\ n >= 2 =>
                    /\ out.val = Nested(funcs, 1, args)
                    /\ Len(out.trace) = n
                    /\ \A j \in 1..n : out.trace[j].fn = funcs[n + 1 - j].name
                    /\ out.trace[1].args = args
                    /\ \A j \in 2..n :
                          out.trace[j].args = << Nested(funcs, n + 2 - j, args) >>

\* compose(inc, dbl, sum)(1, 1) = inc(dbl(sum(1, 1))) = 5: sum got both
\* arguments, dbl got 2, inc got 4
C15_Witness ==
    /\ funcs = << Prim("inc"), Prim("dbl"), Prim("sum") >>
    /\ args = << 1, 1 >>
    /\ out.called
    /\ out.val = 5
    /\ out.trace = << [fn |-> "sum", args |-> << 1, 1 >>],
                      [fn |-> "dbl", args |-> << 2 >>],
                      [fn |-> "inc", args |-> << 4 >>] >>

RECURSIVE NestedHandlers(_, _)
\* the action => ... function of middleware k, whose next is that of
\* middleware k + 1, and so on down to store.dispatch
NestedHandlers(ms, k) ==
    IF k > Len(ms) THEN Raw
    ELSE Handler(ms[k], NestedHandlers(ms, k + 1))

RECURSIVE NextsOf(_)
\* how many action => ... functions lie between f and store.dispatch, f
\* included
NextsOf(f) == IF f.tag = "handler" THEN 1 + NextsOf(f.next) ELSE 0

\* the place in the list of the middleware whose function frame j of stk
\* runs, 0 when it is the function of none
PlaceIn(stk, j) ==
    LET p == Len(middlewares) + 1 - NextsOf(stk[j].h)
    IN  IF p >= 1 /\ stk[j].h = NestedHandlers(middlewares, p) THEN p ELSE 0

PlaceOf(j) == PlaceIn(mwStack, j)

\* the step calls store.dispatch(action) for user code: the dispatch of a
\* store without middleware, the next of a middleware's action => ...
\* function, or the next of a next => ... function that line 43 is calling
CallsRaw(action) ==
    /\ dispatchCall(action)
    /\ \/ userDispatches(action) /\ dispatchRef.tag = "raw"
       \/ handlerNext(action) /\ MwTop.h.next.tag = "raw"
       \/ wrapperNext(action) /\ WrapperCall.args[1].tag = "raw"

\* the functions of the middlewares at places from..Len(middlewares) are the
\* last frames of stk, in the order of the list, each one in its call of
\* next, with no frame of the store between them
ThroughChain(stk, from) ==
    LET n == Len(middlewares)
        m == n + 1 - from
    IN  /\ Len(stk) >= m
        /\ \A p \in from..n :
              /\ PlaceIn(stk, Len(stk) - n + p) = p
              /\ stk[Len(stk) - n + p].calling = "next"
              /\ stk[Len(stk) - n + p].base = Len(stack)

\* frame j was entered through the dispatch of the returned store: called
\* by user code outside the middlewares (no function frame is beneath it,
\* or frames of the store lie between), or by the function beneath it
\* through middlewareAPI.dispatch
EnteredByDispatch(j) ==
    \/ j = 1
    \/ mwStack[j - 1].base < mwStack[j].base
    \/ mwStack[j - 1].calling = "forward"

\* the function frames are in the order of the list: a function entered
\* through next is the one listed right after its caller
FramesInListOrder ==
    \A j \in 1..Len(mwStack) :
        LET p == PlaceOf(j)
        IN  /\ p >= 1
            /\ mwStack[j].h.name = middlewares[p]
            /\ (j > 1 /\ ~EnteredByDispatch(j)) =>
                  /\ mwStack[j - 1].calling = "next"
                  /\ p = PlaceOf(j - 1) + 1

\* C13: the dispatch of the returned store is the first middleware's
\* function, whose next is the second's, and so on in the order of the
\* list, the last one's next being store.dispatch.  So an action dispatched
\* through the returned store's dispatch, by whatever user code, enters the
\* first middleware; a middleware entered through next is the one listed
\* right after its caller; and for such an action store.dispatch is called
\* only by the next of the last middleware, at the end of a run of next
\* calls that went through every middleware in order (with an empty list,
\* by the user's dispatch itself).  The other calls of store.dispatch start
\* from no dispatch of the returned store: while line 43 calls the next =>
\* ... functions, the one being called may call the next it was handed, and
\* replaceReducer dispatches its REPLACE action itself (line 312).
C13_ChainOrder ==
    /\ [](/\ StoreReturned => dispatchRef = NestedHandlers(middlewares, 1)
          /\ FramesInListOrder
          /\ StoreReturned =>
                \A j \in 1..Len(mwStack) : EnteredByDispatch(j) => PlaceOf(j) = 1
          /\ (mwStack # <<>> /\ phase = "map") =>
                /\ Len(chain) = Len(middlewares)
                /\ wrapped >= 1
                /\ PlaceOf(1) = Len(middlewares) + 1 - wrapped)
    /\ [][\A action \in MwActions :
             ((RoundStarts \/ ret'.op = "dispatch") /\ CallsRaw(action)) =>
                 \/ /\ StoreReturned
                    /\ ThroughChain(mwStack', 1)
                    /\ Len(middlewares) >= 1 =>
                          EnteredByDispatch(Len(mwStack) + 1 - Len(middlewares))
                 \/ /\ phase = "map"
                    /\ dispatchRef = Placeholder
                    /\ Len(chain) = Len(middlewares)
                    /\ Len(mwStack') = wrapped
                    /\ ThroughChain(mwStack', Len(middlewares) + 1 - wrapped)
       ]_vars
    /\ [][RoundStarts =>
             IF rounds'[Len(rounds')].type = REPLACE
             THEN StoreReturned /\ replaceReducer("R2")
             ELSE \E action \in MwActions : CallsRaw(action)
       ]_vars

\* applyMiddleware(A, B): the store was returned and L1 subscribed; an
\* action was dispatched, A called next, B called next, and the store's
\* reducer is running for that action
C13_Witness ==
    /\ middlewares = << "A", "B" >>
    /\ StoreReturned
    /\ Len(mwStack) = 2
    /\ mwStack[1].h.name = "A" /\ mwStack[1].calling = "next"
    /\ mwStack[2].h.name = "B" /\ mwStack[2].calling = "next"
    /\ Len(stack) = 1
    /\ Top.type = "INC"
    /\ isDispatching
    /\ Len(subs) = 1
    /\ Len(rounds) = 2

\* line 42 is at work: not every middleware has returned its function
FactoriesInvoked == phase = "map" /\ Len(chain) < Len(middlewares)

\* C14: as long as line 43 has not assigned dispatch, a call of
\* middlewareAPI.dispatch fails with PrematureDispatch, whichever middleware
\* is being set up and whatever the argument, be the caller a middleware, a
\* next => ... function or an action => ... function that one has called; it
\* starts no reducer call and no round and leaves the state as it is.  While
\* the middlewares are being called the store has seen its INIT round only.
C14_PrematureDispatch ==
    /\ [](FactoriesInvoked =>
             /\ stack = <<>> /\ mwStack = <<>>
             /\ ~isDispatching
             /\ wrapped = 0
             /\ Len(rounds) = 1 /\ currentState = rounds[1].result
             /\ ret.op \in {"none", "middlewareAPI.dispatch"}
             /\ ret.op = "middlewareAPI.dispatch" => ret.res = "PrematureDispatch")
    /\ [][\A action \in MwActions :
             (setupDispatches(action) \/ (phase = "map" /\ handlerForward(action))) =>
                 /\ ret'.res = "PrematureDispatch" /\ ret'.arg = action
                 /\ Len(mwStack') = Len(mwStack)
                 /\ UNCHANGED <<currentState, currentReducer, isDispatching, stack,
                                rounds, heap, currentListeners, nextListeners,
                                dispatchRef, chain, wrapped>>
       ]_vars

\* applyMiddleware(A, B): A has returned its function, B is being called and
\* has called middlewareAPI.dispatch with a valid action
C14_Witness ==
    /\ middlewares = << "A", "B" >>
    /\ phase = "map"
    /\ chain = << Wrapper("A") >>
    /\ ret.op = "middlewareAPI.dispatch" /\ ret.res = "PrematureDispatch"
    /\ ret.arg = PlainAction("INC")
    /\ Len(rounds) = 1

\* C18: the variable dispatch is assigned once after its initialisation: by
\* line 43, when every middleware has returned its function and every one of
\* these has returned, from the throwing function to the composition of the
\* whole chain; it never changes afterwards.  From then on every call a
\* middleware's action => ... function makes through middlewareAPI.dispatch
\* starts the first middleware's function, the one the store's dispatch is:
\* it does not throw PrematureDispatch, it does not call store.dispatch, and
\* it does not start in the middle of the chain.
C18_ForwardToFinal ==
    /\ [][dispatchRef' # dispatchRef =>
             /\ installDispatch
             /\ dispatchRef = Placeholder
             /\ chain = [k \in 1..Len(middlewares) |-> Wrapper(middlewares[k])]
             /\ wrapped = Len(middlewares)
             /\ dispatchRef' = NestedHandlers(middlewares, 1)
       ]_vars
    /\ [][phase = "ready" => phase' = "ready" /\ dispatchRef' = dispatchRef]_vars
    /\ [][\A action \in MwActions :
             (phase = "ready" /\ handlerForward(action)) =>
                 /\ ret'.res # "PrematureDispatch"
                 /\ UNCHANGED <<stack, rounds, currentState>>
                 /\ Len(mwStack') = Len(mwStack) + 1
                 /\ mwStack'[Len(mwStack')].h = dispatchRef
                 /\ mwStack'[Len(mwStack')].h = NestedHandlers(middlewares, 1)
       ]_vars

\* applyMiddleware(A, B): B, reached through A's next, has called
\* middlewareAPI.dispatch, and A's function runs again, for B
C18_Witness ==
    /\ middlewares = << "A", "B" >>
    /\ phase = "ready"
    /\ Len(mwStack) = 3
    /\ mwStack[2].h.name = "B" /\ mwStack[2].calling = "forward"
    /\ mwStack[3].h = dispatchRef
    /\ mwStack[3].h.name = "A" /\ mwStack[3].h.next.name = "B"
    /\ stack = <<>>

\* the callbacks of the live handles, in the order subscribe issued the handles
LiveListeners ==
    LET live == SelectSeq(subs, LAMBDA r : r.isSubscribed)
    IN  [k \in 1..Len(live) |-> live[k].listener]

\* no callback was handed to subscribe twice
NoCallbackTwice ==
    \A h1, h2 \in 1..Len(subs) : h1 # h2 => subs[h1].listener # subs[h2].listener

\* C21 as stated: in every state the pending array is the callbacks of the
\* live handles in the order of their subscription.
C21_PendingInSubscriptionOrder == heap[nextListeners] = LiveListeners

\* C21: in every state the pending array holds every callback as often as
\* it has live handles (issued and not revoked) and nothing else, so the
\* indexOf of unsubscribe finds an entry for every live handle and the entry
\* it finds is that handle's callback.  The pending array is in the order of
\* subscription when no callback was subscribed twice; unsubscribe removes
\* the first entry of a callback, whichever handle is revoked.
C21_RegistryConsistency ==
    LET pending == heap[nextListeners]
    IN  /\ Len(pending) = Cardinality(LiveHandles)
        /\ \A l \in Listeners \cup ObserveStates :
              Count(pending, l) = Cardinality(HandlesOf(l, LiveHandles))
        /\ \A h \in LiveHandles :
              LET index == indexOf(pending, subs[h].listener)
              IN  /\ index \in 0..(Len(pending) - 1)
                  /\ pending[index + 1] = subs[h].listener
                  /\ Count(splice1(pending, index), subs[h].listener)
                         = Count(pending, subs[h].listener) - 1
                  /\ \A l \in (Listeners \cup ObserveStates) \ {subs[h].listener} :
                         Count(splice1(pending, index), l) = Count(pending, l)
        /\ NoCallbackTwice => pending = LiveListeners

\* L1, L2 and L1 again were subscribed and the third handle was revoked:
\* the first L1 left the pending array, which now has L2 before L1
C21_Witness ==
    /\ Len(subs) = 3
    /\ subs[1].listener = "L1" /\ subs[1].isSubscribed
    /\ subs[2].listener = "L2" /\ subs[2].isSubscribed
    /\ subs[3].listener = "L1" /\ ~subs[3].isSubscribed
    /\ ret.op = "unsubscribe" /\ ret.val = 3 /\ ret.res = "ok"
    /\ heap[nextListeners] = << "L2", "L1" >>
====
